---- MODULE Spec2Model ----
(***************************************************************************)
(* A model of the AI Tool Advisor: the ingest script (src/ingest.py), that *)
(* turns a CSV catalog into documents and builds the persisted FAISS index,*)
(* and the Streamlit serving app (src/app.py), whose script is re-run for  *)
(* every interaction of every browser session of one serving process.      *)
(***************************************************************************)
EXTENDS Integers, Sequences, FiniteSets, TLC

VARIABLES
    csv,            \* the file at CSV_PATH: [exists, header, rows]
    ingestKey,      \* OPENAI_API_KEY in the ingest process's environment
    ingestPc,       \* position of the ingest process in main/build_vectorstore
    documents,      \* the list load_and_prepare_data returned
    embedded,       \* how many documents FAISS.from_documents has embedded
    disk,           \* the index directory: [dir, faiss, pkl] (0 = file absent)
    diskAtStart,    \* the index directory as it was when the build started
    envKey,         \* OPENAI_API_KEY in the serving process's environment
    secretKey,      \* OPENAI_API_KEY in the app's st.secrets
    vsCache,        \* st.cache_resource entry of load_vectorstore
    chains,         \* the conversation chains created so far: their memories
    chainCache,     \* st.cache_resource entry of get_conversation_chain
    session_state,  \* st.session_state of every browser session
    turns,          \* how many user inputs were handled so far (bounded)
    last            \* what the latest handled user input did

vars == <<csv, ingestKey, ingestPc, documents, embedded, disk,
          diskAtStart, envKey, secretKey, vsCache, chains, chainCache,
          session_state, turns, last>>

appVars == <<envKey, secretKey, vsCache, chains, chainCache, session_state, turns, last>>

----------------------------------------------------------------------------
(* Bounds of the model. *)

MaxRows == 2        \* rows of a catalog
MaxTurns == 2       \* user inputs handled by the serving process

----------------------------------------------------------------------------
(* The catalog and load_and_prepare_data. *)

\* The columns the script reads, in the order of the text template.
Columns ==
    <<"Name", "Category", "Primary Task", "Short Description", "Keywords",
      "technologies", "industry", "Pricing", "Country", "Year Founded", "Website">>

AllColumns == {Columns[i] : i \in 1..Len(Columns)}

\* The labels of the text template, one per column of Columns.
Labels ==
    <<"Tool Name", "Category", "Primary Task", "Description", "Keywords",
      "Technologies", "Industry", "Pricing", "Country", "Year Founded", "Website">>

\* A cell of the data frame: <<>> is NaN, <<v>> is the value v.
NaN == <<>>

\* The strings pandas.read_csv turns into NaN by default.
NaValues ==
    {"", "#N/A", "#N/A N/A", "#NA", "-1.#IND", "-1.#QNAN", "-NaN", "-nan",
     "1.#IND", "1.#QNAN", "<NA>", "N/A", "NA", "NULL", "NaN", "None", "n/a",
     "nan", "null"}

\* pd.read_csv(CSV_PATH): every cell is parsed, a cell spelling a missing
\* value becomes NaN.
read_csv(file) ==
    [columns |-> file.header,
     rows |-> [i \in 1..Len(file.rows) |->
                 [c \in file.header |->
                    IF file.rows[i][c] \in NaValues THEN NaN ELSE <<file.rows[i][c]>>]]]

\* df.dropna(subset=["Name"]): the rows whose Name is not NaN, in order.
\* (Called only when the frame has a Name column; see load_and_prepare_data.)
dropna(df) ==
    [df EXCEPT !.rows = SelectSeq(df.rows, LAMBDA r : r["Name"] # NaN)]

\* df.fillna(""): every remaining NaN becomes the empty string.
fillna(df) ==
    [df EXCEPT !.rows = [i \in 1..Len(df.rows) |->
                           [c \in df.columns |->
                              IF df.rows[i][c] = NaN THEN <<"">> ELSE df.rows[i][c]]]]

\* row.get(col, default): the row's value when the frame has the column.
RowGet(row, col, default) ==
    IF col \in DOMAIN row THEN row[col][1] ELSE default

\* The default row.get is given for a column of the template.
DefaultOf(col) == IF col = "Pricing" THEN "Not specified" ELSE ""

\* text_content: the labelled lines of the template, in its fixed order.
TextContent(row) ==
    [i \in 1..Len(Columns) |->
        [label |-> Labels[i], value |-> RowGet(row, Columns[i], DefaultOf(Columns[i]))]]

\* The metadata dictionary of a document.
Metadata(row) ==
    [name |-> RowGet(row, "Name", ""),
     category |-> RowGet(row, "Category", ""),
     primary_task |-> RowGet(row, "Primary Task", ""),
     pricing |-> RowGet(row, "Pricing", "Not specified"),
     website |-> RowGet(row, "Website", ""),
     country |-> RowGet(row, "Country", ""),
     year_founded |-> RowGet(row, "Year Founded", ""),
     technologies |-> RowGet(row, "technologies", "")]

Document(row) == [page_content |-> TextContent(row), metadata |-> Metadata(row)]

\* load_and_prepare_data(): [raised, documents].  dropna raises KeyError when
\* the frame has no Name column.
load_and_prepare_data(file) ==
    LET df0 == read_csv(file)
    IN  IF "Name" \notin df0.columns
        THEN [raised |-> TRUE, documents |-> <<>>]
        ELSE LET df == fillna(dropna(df0))
             IN  [raised |-> FALSE,
                  documents |-> [i \in 1..Len(df.rows) |-> Document(df.rows[i])]]

----------------------------------------------------------------------------
(* The index directory and build_vectorstore. *)

NoIndex == [dir |-> FALSE, faiss |-> 0, pkl |-> 0]

\* The snapshot an earlier build left in the index directory: version 1.
PriorIndex == [dir |-> TRUE, faiss |-> 1, pkl |-> 1]

\* The snapshot the ingest script writes: version 2.
NewIndex == [dir |-> TRUE, faiss |-> 2, pkl |-> 2]

\* The steps of build_vectorstore that follow OpenAIEmbeddings(), in the order
\* of the code: FAISS.from_documents, os.makedirs, then save_local, which
\* writes index.faiss and then index.pkl into the directory.
BuildOrderMkdirFirst == <<"makedirs", "embed", "save_faiss", "save_pkl">>
BuildOrder == <<"embed", "makedirs", "save_faiss", "save_pkl">>

FirstStage == BuildOrder[1]

StageAfter(stage) ==
    LET i == CHOOSE j \in 1..Len(BuildOrder) : BuildOrder[j] = stage
    IN  IF i < Len(BuildOrder) THEN BuildOrder[i + 1] ELSE "done"

\* ingest.py main(): the API-key check, the CSV check, load_and_prepare_data;
\* an exception of load_and_prepare_data is caught and printed by main.
IngestMain ==
    /\ ingestPc = "idle"
    /\ diskAtStart' = disk
    /\ embedded' = 0
    /\ IF ingestKey = ""
       THEN ingestPc' = "no_key" /\ documents' = <<>>
       ELSE IF ~csv.exists
       THEN ingestPc' = "no_csv" /\ documents' = <<>>
       ELSE LET r == load_and_prepare_data(csv)
            IN  /\ documents' = r.documents
                /\ ingestPc' = IF r.raised THEN "load_failed" ELSE FirstStage
    /\ UNCHANGED <<csv, ingestKey, disk>>
    /\ UNCHANGED appVars

\* FAISS.from_documents embeds one more record: the provider call succeeds or
\* raises, and the exception ends main.
EmbedDocument ==
    /\ ingestPc = "embed"
    /\ embedded < Len(documents)
    /\ \E ok \in BOOLEAN :
          IF ok
          THEN embedded' = embedded + 1 /\ ingestPc' = ingestPc
          ELSE embedded' = embedded /\ ingestPc' = "embed_failed"
    /\ UNCHANGED <<csv, ingestKey, documents, disk, diskAtStart>>
    /\ UNCHANGED appVars

\* FAISS.from_documents returns the in-memory vectorstore once every record
\* is embedded; it raises on an empty list of records.
FinishEmbedding ==
    /\ ingestPc = "embed"
    /\ embedded = Len(documents)
    /\ ingestPc' = IF Len(documents) = 0 THEN "empty_failed" ELSE StageAfter("embed")
    /\ UNCHANGED <<csv, ingestKey, documents, embedded, disk, diskAtStart>>
    /\ UNCHANGED appVars

\* os.makedirs(INDEX_DIR, exist_ok=True): creates the directory, or raises.
Makedirs ==
    /\ ingestPc = "makedirs"
    /\ \E ok \in BOOLEAN :
          IF ok
          THEN disk' = [disk EXCEPT !.dir = TRUE] /\ ingestPc' = StageAfter("makedirs")
          ELSE disk' = disk /\ ingestPc' = "save_failed"
    /\ UNCHANGED <<csv, ingestKey, documents, embedded, diskAtStart>>
    /\ UNCHANGED appVars

\* vectorstore.save_local, first file: index.faiss is written in place.
SaveFaiss ==
    /\ ingestPc = "save_faiss"
    /\ \E ok \in BOOLEAN :
          IF ok
          THEN /\ disk' = [disk EXCEPT !.dir = TRUE, !.faiss = NewIndex.faiss]
               /\ ingestPc' = StageAfter("save_faiss")
          ELSE disk' = disk /\ ingestPc' = "save_failed"
    /\ UNCHANGED <<csv, ingestKey, documents, embedded, diskAtStart>>
    /\ UNCHANGED appVars

\* vectorstore.save_local, second file: index.pkl is written in place.
SavePkl ==
    /\ ingestPc = "save_pkl"
    /\ \E ok \in BOOLEAN :
          IF ok
          THEN /\ disk' = [disk EXCEPT !.dir = TRUE, !.pkl = NewIndex.pkl]
               /\ ingestPc' = StageAfter("save_pkl")
          ELSE disk' = disk /\ ingestPc' = "save_failed"
    /\ UNCHANGED <<csv, ingestKey, documents, embedded, diskAtStart>>
    /\ UNCHANGED appVars

----------------------------------------------------------------------------
(* The serving app: the caches, the session state, one run of the script. *)

Sessions == {"A", "B"}

\* The top-k of the retriever.
K == 10

\* The prompts of the four sidebar buttons.
SuggestedPrompts ==
    <<"Show me free AI image generators",
      "What are the best AI coding assistants?",
      "Recommend AI writing and content creation tools",
      "AI tools for video generation and editing">>

\* ', '.join(xs)
RECURSIVE Join(_)
Join(xs) ==
    IF Len(xs) = 0 THEN ""
    ELSE IF Len(xs) = 1 THEN xs[1]
    ELSE xs[1] \o ", " \o Join(Tail(xs))

\* The query given to the chain: the input, with the pricing hint appended
\* when the multiselect holds a selection.
BuildQueryNoHint(user_input, pricing_filter) == user_input
BuildQuery(user_input, pricing_filter) ==
    IF Len(pricing_filter) > 0
    THEN user_input \o " Only show tools with pricing: " \o Join(pricing_filter) \o "."
    ELSE user_input

\* The __main__ guard's test: a key in the environment or in st.secrets.
KeyCheckSkipped(env, secret) == TRUE
KeyCheckPasses(env, secret) == ~(env = "" /\ secret = "")

\* The environment after the guard: reading st.secrets (done only when the
\* environment holds no key) parses the secrets, and parsing exports every
\* root-level secret to the environment.
EnvAfterCheck(env, secret) ==
    IF env = "" /\ secret # "" THEN secret ELSE env

NoStore == [state |-> "none", faiss |-> 0, pkl |-> 0, key |-> ""]
UnsetCache == [state |-> "unset", faiss |-> 0, pkl |-> 0, key |-> ""]

\* The body of load_vectorstore: OpenAIEmbeddings() raises without a key,
\* FAISS.load_local raises unless both files are in the directory; the
\* exception is caught and None returned.
LoadLocal(d, env) ==
    IF env # "" /\ d.dir /\ d.faiss # 0 /\ d.pkl # 0
    THEN [state |-> "store", faiss |-> d.faiss, pkl |-> d.pkl, key |-> env]
    ELSE NoStore

\* load_vectorstore under st.cache_resource: the first call's return value,
\* None included, is what every later call of the process returns.
load_vectorstore_retry(cache, d, env) ==
    IF cache.state = "store"
    THEN [cache |-> cache, value |-> cache]
    ELSE LET v == LoadLocal(d, env)
         IN  [cache |-> IF v.state = "store" THEN v ELSE cache, value |-> v]
load_vectorstore(cache, d, env) ==
    IF cache.state # "unset"
    THEN [cache |-> cache, value |-> cache]
    ELSE LET v == LoadLocal(d, env)
         IN  [cache |-> v, value |-> v]

\* get_conversation_chain under st.cache_resource: its only parameter is
\* excluded from the cache key, so the first chain, with its memory, is what
\* every later call of the process returns.  [chains, cache, chain]
get_conversation_chain(cache, chns, env) ==
    IF cache # 0
    THEN [chains |-> chns, cache |-> cache, chain |-> cache]
    ELSE LET c == Len(chns) + 1
         IN  [chains |-> Append(chns, [memory |-> <<>>, key |-> env]),
              cache |-> c, chain |-> c]

\* st.session_state of a session the script has not run for yet.
NewSessionState ==
    [messages |-> <<>>, conversation |-> 0, vectorstore_loaded |-> "unset"]

\* "Initialize session state": the vectorstore and the chain are fetched
\* while the session has no conversation.  [cache, chains, chainCache, ss]
InitSession(ss, cache, chns, ccache, d, env) ==
    IF ss.conversation # 0
    THEN [cache |-> cache, chains |-> chns, chainCache |-> ccache, ss |-> ss]
    ELSE LET lv == load_vectorstore(cache, d, env)
         IN  IF lv.value.state = "store"
             THEN LET gc == get_conversation_chain(ccache, chns, env)
                  IN  [cache |-> lv.cache, chains |-> gc.chains,
                       chainCache |-> gc.cache,
                       ss |-> [ss EXCEPT !.conversation = gc.chain,
                                         !.vectorstore_loaded = "yes"]]
             ELSE [cache |-> lv.cache, chains |-> chns, chainCache |-> ccache,
                   ss |-> [ss EXCEPT !.vectorstore_loaded = "no"]]

\* What the provider's calls of one turn come to: the chain's answer, or the
\* message of the exception the embedding or language-model call raised.
Answers == {"Here are some tools you could try."}
ProviderErrors == {"Rate limit reached"}

\* The documents of the docstore of snapshot version v: the earlier build's
\* for version 1, else those the ingest script prepared from the catalog.
PriorDocuments ==
    <<[page_content |-> <<>>,
       metadata |-> [name |-> "Jasper", category |-> "Writing", primary_task |-> "",
                     pricing |-> "Paid", website |-> "", country |-> "",
                     year_founded |-> "", technologies |-> ""]]>>

DocsOfVersion(v) ==
    IF v = 1 THEN PriorDocuments ELSE load_and_prepare_data(csv).documents

Min(a, b) == IF a < b THEN a ELSE b

\* The retriever: the k most similar documents of the store, k = 10, or all
\* of them when the store holds fewer.  Which ones is up to the embeddings;
\* the pricing metadata plays no part.
Retrieve(docs) ==
    {{docs[i].metadata : i \in S} :
        S \in {T \in SUBSET (1..Len(docs)) : Cardinality(T) = Min(K, Len(docs))}}

\* Nothing handled yet.
NoTurn ==
    [session |-> "", kind |-> "none", input |-> "", filter |-> <<>>, query |-> "",
     sources |-> {}, history |-> <<>>, key |-> ""]

\* The except branch of the turn: the error is recorded as the assistant turn.
RecordFailureDropped(msgs, e) == msgs
RecordFailure(msgs, e) ==
    Append(msgs, [role |-> "assistant", content |-> "Error: " \o e])

\* "if user_input:" for session s.  The user's turn is appended; with the
\* vectorstore loaded the chain is called with the query, and its answer, or
\* the error it raised, is appended as the assistant's turn; the chain's
\* memory takes the question and the answer of a call that returned.
\* [ss, chains, last]
HandleInput(s, ss, chns, user_input, pricing_filter, ok, text, sources) ==
    LET msgs == Append(ss.messages, [role |-> "user", content |-> user_input])
        turn == [NoTurn EXCEPT !.session = s, !.input = user_input,
                               !.filter = pricing_filter]
    IN  IF ss.vectorstore_loaded = "yes"
        THEN LET query == BuildQuery(user_input, pricing_filter)
                 chain == chns[ss.conversation]
                 called == [turn EXCEPT !.query = query, !.history = chain.memory,
                                        !.key = chain.key]
             IN  IF ok
                 THEN [ss |-> [ss EXCEPT !.messages =
                                 Append(msgs, [role |-> "assistant", content |-> text])],
                       chains |-> [chns EXCEPT ![ss.conversation].memory =
                                     chain.memory \o
                                       <<[type |-> "human", content |-> query],
                                         [type |-> "ai", content |-> text]>>],
                       last |-> [called EXCEPT !.kind = "answer", !.sources = sources]]
                 ELSE [ss |-> [ss EXCEPT !.messages = RecordFailure(msgs, text)],
                       chains |-> chns,
                       last |-> [called EXCEPT !.kind = "error"]]
        ELSE [ss |-> [ss EXCEPT !.messages = msgs],
              chains |-> chns,
              last |-> [turn EXCEPT !.kind = "unavailable"]]

\* One run of the script for session s: the __main__ guard, then main() with
\* the sidebar's pricing_filter and the input of this run ("" when the run
\* has none).
Script(s, user_input, pricing_filter, ok, text, sources) ==
    IF ~KeyCheckPasses(envKey, secretKey)
    THEN \* st.error, st.stop: main() is not run
         UNCHANGED appVars
    ELSE LET env == EnvAfterCheck(envKey, secretKey)
             init == InitSession(session_state[s], vsCache, chains, chainCache, disk, env)
         IN  /\ envKey' = env
             /\ secretKey' = secretKey
             /\ vsCache' = init.cache
             /\ chainCache' = init.chainCache
             /\ IF user_input = ""
                THEN /\ session_state' = [session_state EXCEPT ![s] = init.ss]
                     /\ chains' = init.chains
                     /\ UNCHANGED <<turns, last>>
                ELSE LET h == HandleInput(s, init.ss, init.chains, user_input,
                                          pricing_filter, ok, text, sources)
                     IN  /\ session_state' = [session_state EXCEPT ![s] = h.ss]
                         /\ chains' = h.chains
                         /\ last' = h.last
                         /\ turns' = turns + 1

\* The selections of the "Pricing Model" multiselect the model draws from,
\* among its options Free, Freemium, Paid and Contact for Pricing.
PricingSelections == {<<>>, <<"Free", "Paid">>}

\* The sidebar buttons the model clicks: the first and the last of the four.
ButtonsClicked == {1, Len(SuggestedPrompts)}

\* What the user may type in the chat input.
TypedInputs == {"Best free AI tools for startups"}

\* The outcomes of the provider's calls in one turn of session s: an answer
\* with the documents retrieved from the session's store, or an error.
Outcomes(s) ==
    LET init == InitSession(session_state[s], vsCache, chains, chainCache, disk,
                            EnvAfterCheck(envKey, secretKey))
    IN  IF init.ss.vectorstore_loaded = "yes"
        THEN {[ok |-> TRUE, text |-> a, sources |-> src] :
                  a \in Answers, src \in Retrieve(DocsOfVersion(init.cache.pkl))}
             \cup {[ok |-> FALSE, text |-> e, sources |-> {}] : e \in ProviderErrors}
        ELSE {[ok |-> FALSE, text |-> "", sources |-> {}]}

\* A run with no input: the page is opened, or a sidebar widget changed.
RerunIdle(s) ==
    /\ Script(s, "", <<>>, FALSE, "", {})
    /\ UNCHANGED <<csv, disk>>
    /\ UNCHANGED <<ingestKey, ingestPc, documents, embedded, diskAtStart>>

\* A run for a question typed in the chat input.
RerunTyped(s) ==
    /\ turns < MaxTurns
    /\ \E u \in TypedInputs, f \in PricingSelections, o \in Outcomes(s) :
          Script(s, u, f, o.ok, o.text, o.sources)
    /\ UNCHANGED <<csv, disk>>
    /\ UNCHANGED <<ingestKey, ingestPc, documents, embedded, diskAtStart>>

\* A run for a click on a suggested-prompt button: the prompt is put in
\* session_state.suggested_prompt, taken from it as the input and deleted.
RerunButton(s) ==
    /\ turns < MaxTurns
    /\ \E b \in ButtonsClicked, f \in PricingSelections, o \in Outcomes(s) :
          Script(s, SuggestedPrompts[b], f, o.ok, o.text, o.sources)
    /\ UNCHANGED <<csv, disk>>
    /\ UNCHANGED <<ingestKey, ingestPc, documents, embedded, diskAtStart>>

----------------------------------------------------------------------------
(* The specifications. *)

NoCsv == [exists |-> FALSE, header |-> {}, rows |-> <<>>]

\* A row of a catalog with the given header.
Row(header, name, category, pricing, other) ==
    [c \in header |->
        IF c = "Name" THEN name
        ELSE IF c = "Category" THEN category
        ELSE IF c = "Pricing" THEN pricing
        ELSE other]

\* A catalog of three rows, one of them without a name.
SampleHeader == {"Name", "Category", "Pricing"}
SampleCatalog ==
    [exists |-> TRUE, header |-> SampleHeader,
     rows |-> <<Row(SampleHeader, "ChatGPT", "Chat", "Freemium", ""),
                Row(SampleHeader, "", "Image", "Free", ""),
                Row(SampleHeader, "Canva", "Design", "Free", "")>>]

\* How the serving process is given its key: not at all, in the environment,
\* or in st.secrets.
KeyConfigs ==
    {[env |-> "", secret |-> ""],
     [env |-> "sk-env", secret |-> ""],
     [env |-> "", secret |-> "sk-secret"]}

InitApp ==
    /\ \E k \in KeyConfigs : envKey = k.env /\ secretKey = k.secret
    /\ vsCache = UnsetCache
    /\ chains = <<>>
    /\ chainCache = 0
    /\ session_state = [s \in Sessions |-> NewSessionState]
    /\ turns = 0
    /\ last = NoTurn

InitIngest ==
    /\ ingestPc = "idle"
    /\ documents = <<>>
    /\ embedded = 0
    /\ disk \in {NoIndex, PriorIndex}
    /\ diskAtStart = disk

\* What the ingest script is started with: no key, no CSV file, or both.
IngestConfigs ==
    {[key |-> "", csv |-> SampleCatalog],
     [key |-> "sk-ingest", csv |-> NoCsv],
     [key |-> "sk-ingest", csv |-> SampleCatalog]}

Init ==
    /\ \E c \in IngestConfigs : ingestKey = c.key /\ csv = c.csv
    /\ InitIngest
    /\ InitApp

Next ==
    \/ IngestMain
    \/ EmbedDocument
    \/ FinishEmbedding
    \/ Makedirs
    \/ SaveFaiss
    \/ SavePkl
    \/ \E s \in Sessions : RerunIdle(s)
    \/ \E s \in Sessions : RerunTyped(s)
    \/ \E s \in Sessions : RerunButton(s)

Spec == Init /\ [][Next]_vars

----------------------------------------------------------------------------
(* The specification of load_and_prepare_data over bounded catalogs. *)

NameCells == {"", "ChatGPT", "NA"}
CategoryCells == {"", "Chat"}
PricingCells == {"", "Free"}
OtherCells == {"", "x"}

Headers ==
    {AllColumns, AllColumns \ {"Pricing"}, AllColumns \ {"Name"}, {"Name"}}

RowsOf(header) ==
    {Row(header, n, c, p, o) :
        n \in NameCells, c \in CategoryCells, p \in PricingCells, o \in OtherCells}

SeqsUpTo(S, n) == UNION {[1..k -> S] : k \in 0..n}

Catalogs ==
    UNION {{[exists |-> TRUE, header |-> h, rows |-> rs] :
               rs \in SeqsUpTo(RowsOf(h), MaxRows)} : h \in Headers}

InitData ==
    /\ csv \in Catalogs
    /\ ingestKey = "sk-ingest"
    /\ ingestPc = "idle"
    /\ documents = <<>>
    /\ embedded = 0
    /\ disk = NoIndex
    /\ diskAtStart = disk
    /\ envKey = ""
    /\ secretKey = ""
    /\ vsCache = UnsetCache
    /\ chains = <<>>
    /\ chainCache = 0
    /\ session_state = [s \in Sessions |-> NewSessionState]
    /\ turns = 0
    /\ last = NoTurn

NextData == IngestMain

SpecData == InitData /\ [][NextData]_vars

----------------------------------------------------------------------------
(* The claims. *)

Messages(s) == session_state[s].messages

\* The chat history the chain of session s gives the model: the memory of
\* the chain in the session's state.
HistoryOf(ss, chns) ==
    IF ss.conversation = 0 THEN <<>> ELSE chns[ss.conversation].memory

\* C1: a turn handled in one session never adds to or changes the chat
\* history used to answer the questions of another session.
C1_HistoryPerSession ==
    [][\A a \in Sessions, b \in Sessions :
          (a # b /\ session_state'[a].messages # session_state[a].messages)
          => HistoryOf(session_state'[b], chains') = HistoryOf(session_state[b], chains)]_vars

ErrorMessages == {"Error: Rate limit reached"}

\* C2: when the provider call of a turn fails, the session's messages are
\* the earlier ones, unchanged and in order, then the user's turn, then one
\* error message as the assistant's turn; the session keeps its chain, whose
\* memory is as the failed call found it, and stays able to handle turns,
\* and no other session's messages change.
C2_FailedTurnRecorded ==
    [][\A s \in Sessions :
          (turns' = turns + 1 /\ last'.kind = "error" /\ last'.session = s)
          => LET old == session_state[s].messages
                 new == session_state'[s].messages
             IN  /\ Len(new) = Len(old) + 2
                 /\ SubSeq(new, 1, Len(old)) = old
                 /\ new[Len(old) + 1] = [role |-> "user", content |-> last'.input]
                 /\ new[Len(old) + 2].role = "assistant"
                 /\ new[Len(old) + 2].content \in ErrorMessages
                 /\ session_state'[s].vectorstore_loaded = "yes"
                 /\ session_state'[s].conversation # 0
                 /\ chains'[session_state'[s].conversation].memory = last'.history
                 /\ \A t \in Sessions \ {s} :
                        session_state'[t].messages = session_state[t].messages]_vars

\* A session whose first turn failed and whose second turn was answered.
C2_Witness ==
    \E s \in Sessions :
        /\ Len(Messages(s)) = 4
        /\ Messages(s)[2].content \in ErrorMessages
        /\ Messages(s)[4].content \in Answers
        /\ last.session = s /\ last.kind = "answer"

\* C3: while the records are being embedded, and after the embedding of a
\* record failed, the index directory is exactly as it was when the build
\* started.
C3_EmbedFailureLeavesDisk ==
    ingestPc \in {"embed", "embed_failed"} => disk = diskAtStart

\* The embedding failed on the second of two records, a prior index on disk.
C3_Witness ==
    /\ ingestPc = "embed_failed"
    /\ embedded = 1
    /\ Len(documents) = 2
    /\ disk = PriorIndex

\* C4: the index directory never holds a snapshot a serving process could
\* load whose files come from different builds.
C4_SnapshotAtomic ==
    (disk.dir /\ disk.faiss # 0 /\ disk.pkl # 0) => disk.faiss = disk.pkl

\* C5: a session for which the index could not be loaded stays without it,
\* and a user input of such a session is answered by the "not loaded" error
\* alone: only the user's turn is appended and no chain is called.
C5_UnavailableNeverQueries ==
    [][\A s \in Sessions :
          /\ session_state[s].vectorstore_loaded = "no"
                => session_state'[s].vectorstore_loaded = "no"
          /\ (session_state'[s].vectorstore_loaded = "no"
              /\ session_state'[s].messages # session_state[s].messages)
                => /\ last'.kind = "unavailable"
                   /\ last'.session = s
                   /\ chains' = chains
                   /\ session_state'[s].conversation = 0
                   /\ session_state'[s].messages =
                        Append(session_state[s].messages,
                               [role |-> "user", content |-> last'.input])]_vars

\* A session that found no index, with a complete index on disk since, whose
\* two inputs got no answer.
C5_Witness ==
    \E s \in Sessions :
        /\ session_state[s].vectorstore_loaded = "no"
        /\ Len(Messages(s)) = 2
        /\ disk = NewIndex
        /\ last.kind = "unavailable" /\ last.session = s

\* The key that passes the guard of the serving app.
CheckedKey == IF envKey # "" THEN envKey ELSE secretKey

ExpectedQuery(user_input, pricing_filter) ==
    IF pricing_filter = <<>> THEN user_input
    ELSE IF pricing_filter = <<"Free", "Paid">>
    THEN user_input \o " Only show tools with pricing: Free, Paid."
    ELSE "?"

\* C9: the chain is given the user's text, followed by the hint naming the
\* selected categories when there are any, and the sources of an answer are
\* the top-k documents of the store whatever their pricing.
C9_PricingHintOnly ==
    last.kind \in {"answer", "error"}
    => /\ last.query = ExpectedQuery(last.input, last.filter)
       /\ last.kind = "answer"
            => LET docs == DocsOfVersion(vsCache.pkl)
               IN  /\ last.sources \subseteq {docs[i].metadata : i \in 1..Len(docs)}
                   /\ Cardinality(last.sources) = Min(K, Len(docs))

\* An answer to a filtered question with a source priced outside the filter.
C9_Witness ==
    /\ last.kind = "answer"
    /\ last.filter = <<"Free", "Paid">>
    /\ \E src \in last.sources : src.pricing \notin {"Free", "Paid"}

\* C10: the messages of every session alternate user, assistant, and are of
\* even length between runs of the script.
C10_Alternates ==
    \A s \in Sessions :
        /\ Len(Messages(s)) % 2 = 0
        /\ \A i \in 1..Len(Messages(s)) :
              Messages(s)[i].role = IF i % 2 = 1 THEN "user" ELSE "assistant"

\* load_and_prepare_data has run on the catalog.
Prepared == ingestPc \notin {"idle", "no_key", "no_csv"}

\* The rows of the catalog that have a Name and whose Name is not empty.
NamedRows ==
    SelectSeq(csv.rows, LAMBDA r : "Name" \in DOMAIN r /\ r["Name"] # "")

\* C7: the documents are one per row with a non-empty Name, in row order,
\* none for any other row, and every document's name is non-empty.
C7_OneDocumentPerNamedRow ==
    Prepared
    => /\ Len(documents) = Len(NamedRows)
       /\ \A i \in 1..Len(documents) :
             /\ documents[i].metadata.name = NamedRows[i]["Name"]
             /\ documents[i].metadata.name # ""

\* The rows of the catalog the script retains, as the file spells them.
RetainedRows ==
    IF "Name" \in csv.header
    THEN SelectSeq(csv.rows, LAMBDA r : r["Name"] \notin NaValues)
    ELSE <<>>

\* The value the text of a document gives under a label.
TextValue(doc, label) ==
    LET i == CHOOSE j \in 1..Len(doc.page_content) : doc.page_content[j].label = label
    IN  doc.page_content[i].value

\* C8: a retained row without a pricing value (no Pricing column, or an
\* empty cell) has pricing "Not specified" in its text and its metadata, and
\* every other missing field of the text is the empty string.
C8_MissingPricingNotSpecified ==
    Prepared
    => \A i \in 1..Len(documents) :
          LET row == RetainedRows[i]
          IN  /\ ("Pricing" \notin csv.header \/ row["Pricing"] = "")
                    => /\ documents[i].metadata.pricing = "Not specified"
                       /\ TextValue(documents[i], "Pricing") = "Not specified"
              /\ \A j \in 1..Len(Columns) :
                    (Columns[j] # "Pricing"
                     /\ (Columns[j] \notin csv.header \/ row[Columns[j]] = ""))
                    => TextValue(documents[i], Labels[j]) = ""

====
